---- MODULE Spec2Model ----
(***************************************************************************)
(* Dynamic endpoint catalog service (api/server/services/DynamicEndpoints). *)
(* Strings are sequences of one-character strings, so that split, join,    *)
(* capitalisation and comparison are computed as the code computes them.   *)
(***************************************************************************)
EXTENDS Integers, Sequences, FiniteSets, TLC

\* ------------------------------------------------------------------ bounds
\* concurrent callers of load (foreground callers and scheduler ticks)
NumProcs == 2
\* load invocations per run
MaxCalls == 3
\* clock steps per run
MaxTicks == 2
Procs == 1..NumProcs

\* ------------------------------------------------------- program constants
CACHE_TTL_MS == 60 * 60 * 1000
\* one step of the clock: half a TTL, so that both fresh and stale are reached
TickMs == CACHE_TTL_MS \div 2
\* Date.now() when the process starts
StartTime == CACHE_TTL_MS + TickMs
\* lastFetched of a snapshot left in the durable store by an earlier process
PriorTime == TickMs

LITELLM_BASE_URL == "http://betterchat-litellm:4000/v1"
DefaultIconURL == "https://openrouter.ai/favicon.ico"

\* JavaScript null / undefined, as values comparable with strings-as-sequences
Null == <<"null">>
Undefined == <<"undefined">>
\* lastFetched: null is modelled as 0 (the code only tests it for truthiness)
NullTime == 0

\* ------------------------------------------------------------ characters
LowerCase == <<"a","b","c","d","e","f","g","h","i","j","k","l","m",
               "n","o","p","q","r","s","t","u","v","w","x","y","z">>
UpperCase == <<"A","B","C","D","E","F","G","H","I","J","K","L","M",
               "N","O","P","Q","R","S","T","U","V","W","X","Y","Z">>
Digits == <<"0","1","2","3","4","5","6","7","8","9">>
Punct == <<" ", "-", ".", "/">>

IndexOf(c, s) == IF \E i \in 1..Len(s) : s[i] = c
                 THEN CHOOSE i \in 1..Len(s) : s[i] = c
                 ELSE 0

ToUpperChar(c) == IF IndexOf(c, LowerCase) > 0 THEN UpperCase[IndexOf(c, LowerCase)] ELSE c

\* primary collation weight: punctuation < digits < letters, case ignored
PrimaryWeight(c) ==
  IF IndexOf(c, Punct) > 0 THEN IndexOf(c, Punct)
  ELSE IF IndexOf(c, Digits) > 0 THEN 10 + IndexOf(c, Digits)
  ELSE IF IndexOf(c, LowerCase) > 0 THEN 30 + IndexOf(c, LowerCase)
  ELSE IF IndexOf(c, UpperCase) > 0 THEN 30 + IndexOf(c, UpperCase)
  ELSE 100
\* tertiary weight: lower case before upper case
TertiaryWeight(c) == IF IndexOf(c, UpperCase) > 0 THEN 1 ELSE 0

RECURSIVE ComparePrimary(_, _)
\* lexicographic comparison of two strings by primary weight: -1, 0 or 1
ComparePrimary(a, b) ==
  IF a = <<>> /\ b = <<>> THEN 0
  ELSE IF a = <<>> THEN -1
  ELSE IF b = <<>> THEN 1
  ELSE IF PrimaryWeight(Head(a)) < PrimaryWeight(Head(b)) THEN -1
  ELSE IF PrimaryWeight(Head(a)) > PrimaryWeight(Head(b)) THEN 1
  ELSE ComparePrimary(Tail(a), Tail(b))

RECURSIVE CompareTertiary(_, _)
\* the same by tertiary weight, for strings of equal primary weights
CompareTertiary(a, b) ==
  IF a = <<>> /\ b = <<>> THEN 0
  ELSE IF a = <<>> THEN -1
  ELSE IF b = <<>> THEN 1
  ELSE IF TertiaryWeight(Head(a)) < TertiaryWeight(Head(b)) THEN -1
  ELSE IF TertiaryWeight(Head(a)) > TertiaryWeight(Head(b)) THEN 1
  ELSE CompareTertiary(Tail(a), Tail(b))

\* String.prototype.localeCompare: primary weights first, then case
LocaleCompare(a, b) ==
  IF ComparePrimary(a, b) # 0 THEN ComparePrimary(a, b) ELSE CompareTertiary(a, b)

RECURSIVE Split(_, _)
\* String.prototype.split(sep) for a one-character separator
Split(s, sep) ==
  IF \A i \in 1..Len(s) : s[i] # sep THEN <<s>>
  ELSE LET k == CHOOSE i \in 1..Len(s) : s[i] = sep /\ \A j \in 1..(i-1) : s[j] # sep
       IN <<SubSeq(s, 1, k - 1)>> \o Split(SubSeq(s, k + 1, Len(s)), sep)

RECURSIVE Join(_, _)
\* Array.prototype.join(sep)
Join(parts, sep) ==
  IF parts = <<>> THEN <<>>
  ELSE IF Len(parts) = 1 THEN parts[1]
  ELSE parts[1] \o sep \o Join(Tail(parts), sep)

\* ----------------------------------------------------- provider metadata
UNKNOWN == <<"u","n","k","n","o","w","n">>
OPENROUTER == <<"o","p","e","n","r","o","u","t","e","r">>

\* the table's rows, in source order
ProviderTable ==
  <<
    [slug |-> <<"o","p","e","n","a","i">>,
     name |-> <<"O","p","e","n","A","I">>,
     iconURL |-> "https://openai.com/favicon.ico"],
    [slug |-> <<"a","n","t","h","r","o","p","i","c">>,
     name |-> <<"A","n","t","h","r","o","p","i","c">>,
     iconURL |-> "https://anthropic.com/favicon.ico"],
    [slug |-> <<"g","o","o","g","l","e">>,
     name |-> <<"G","o","o","g","l","e">>,
     iconURL |-> "https://www.google.com/favicon.ico"],
    [slug |-> <<"x","-","a","i">>,
     name |-> <<"x","A","I">>,
     iconURL |-> "https://x.ai/favicon.ico"],
    [slug |-> <<"p","e","r","p","l","e","x","i","t","y">>,
     name |-> <<"P","e","r","p","l","e","x","i","t","y">>,
     iconURL |-> "https://www.perplexity.ai/favicon.ico"],
    [slug |-> <<"m","e","t","a","-","l","l","a","m","a">>,
     name |-> <<"M","e","t","a">>,
     iconURL |-> "https://about.meta.com/favicon.ico"],
    [slug |-> <<"m","i","s","t","r","a","l","a","i">>,
     name |-> <<"M","i","s","t","r","a","l"," ","A","I">>,
     iconURL |-> "https://mistral.ai/favicon.ico"],
    [slug |-> <<"c","o","h","e","r","e">>,
     name |-> <<"C","o","h","e","r","e">>,
     iconURL |-> "https://cohere.com/favicon.ico"],
    [slug |-> <<"d","e","e","p","s","e","e","k">>,
     name |-> <<"D","e","e","p","S","e","e","k">>,
     iconURL |-> "https://www.deepseek.com/favicon.ico"],
    [slug |-> <<"m","i","c","r","o","s","o","f","t">>,
     name |-> <<"M","i","c","r","o","s","o","f","t">>,
     iconURL |-> "https://www.microsoft.com/favicon.ico"],
    [slug |-> <<"a","m","a","z","o","n">>,
     name |-> <<"A","m","a","z","o","n">>,
     iconURL |-> "https://www.amazon.com/favicon.ico"],
    [slug |-> <<"n","v","i","d","i","a">>,
     name |-> <<"N","V","I","D","I","A">>,
     iconURL |-> "https://www.nvidia.com/favicon.ico"],
    [slug |-> <<"q","w","e","n">>,
     name |-> <<"Q","w","e","n">>,
     iconURL |-> "https://openrouter.ai/favicon.ico"],
    [slug |-> <<"d","a","t","a","b","r","i","c","k","s">>,
     name |-> <<"D","a","t","a","b","r","i","c","k","s">>,
     iconURL |-> "https://www.databricks.com/favicon.ico"],
    [slug |-> <<"a","i","2","1">>,
     name |-> <<"A","I","2","1"," ","L","a","b","s">>,
     iconURL |-> "https://www.ai21.com/favicon.ico"]
  >>

PROVIDER_METADATA ==
  [p \in {ProviderTable[i].slug : i \in 1..Len(ProviderTable)} |->
     LET row == ProviderTable[CHOOSE i \in 1..Len(ProviderTable) : ProviderTable[i].slug = p]
     IN [name |-> row.name, iconURL |-> row.iconURL]]

Capitalize(word) ==
  IF word = <<>> THEN <<>> ELSE <<ToUpperChar(Head(word))>> \o Tail(word)

getProviderDisplayName(provider) ==
  IF provider \in DOMAIN PROVIDER_METADATA THEN PROVIDER_METADATA[provider].name
  ELSE LET words == Split(provider, "-")
       IN Join([i \in 1..Len(words) |-> Capitalize(words[i])], <<" ">>)

getProviderIconURL(provider) ==
  IF provider \in DOMAIN PROVIDER_METADATA THEN PROVIDER_METADATA[provider].iconURL
  ELSE DefaultIconURL

\* ---------------------------------------------------------------- parser
\* any three segments are read as namespace/provider/model
parseModelId_AnyNamespace(modelId) ==
  LET parts == Split(modelId, "/")
  IN IF Len(parts) = 2
     THEN [provider |-> parts[1], modelName |-> parts[2], fullId |-> modelId]
     ELSE IF Len(parts) = 3
     THEN [provider |-> parts[2], modelName |-> parts[3], fullId |-> modelId]
     ELSE [provider |-> UNKNOWN, modelName |-> modelId, fullId |-> modelId]

parseModelId(modelId) ==
  LET parts == Split(modelId, "/")
  IN IF Len(parts) = 2
     THEN [provider |-> parts[1], modelName |-> parts[2], fullId |-> modelId]
     ELSE IF Len(parts) = 3 /\ parts[1] = OPENROUTER
     THEN [provider |-> parts[2], modelName |-> parts[3], fullId |-> modelId]
     ELSE [provider |-> UNKNOWN, modelName |-> modelId, fullId |-> modelId]

getModelDisplayName(modelId) == parseModelId(modelId).modelName

\* ------------------------------------------------- grouping and configs
\* a Map is a sequence of [key, value] pairs in insertion order
MapHas(m, k) == \E i \in 1..Len(m) : m[i].key = k
MapIndex(m, k) == CHOOSE i \in 1..Len(m) : m[i].key = k

RECURSIVE groupModelsByProvider_ResetsGroup(_)
\* the group is set to [] for every entry, not only on first sight of the provider
groupModelsByProvider_ResetsGroup(models) ==
  IF models = <<>> THEN <<>>
  ELSE LET before == groupModelsByProvider_ResetsGroup(SubSeq(models, 1, Len(models) - 1))
           model == models[Len(models)]
           parsed == parseModelId(model.id)
           item == [id |-> parsed.fullId,
                    name |-> IF model.name = Undefined \/ model.name = <<>>
                             THEN getModelDisplayName(parsed.fullId) ELSE model.name,
                    contextLength |-> model.context_length,
                    pricing |-> model.pricing]
           withKey == IF MapHas(before, parsed.provider) THEN before
                      ELSE Append(before, [key |-> parsed.provider, value |-> <<>>])
           k == MapIndex(withKey, parsed.provider)
       IN [withKey EXCEPT ![k].value = <<item>>]

RECURSIVE groupModelsByProvider(_)
groupModelsByProvider(models) ==
  IF models = <<>> THEN <<>>
  ELSE LET before == groupModelsByProvider(SubSeq(models, 1, Len(models) - 1))
           model == models[Len(models)]
           parsed == parseModelId(model.id)
           item == [id |-> parsed.fullId,
                    name |-> IF model.name = Undefined \/ model.name = <<>>
                             THEN getModelDisplayName(parsed.fullId) ELSE model.name,
                    contextLength |-> model.context_length,
                    pricing |-> model.pricing]
           withKey == IF MapHas(before, parsed.provider) THEN before
                      ELSE Append(before, [key |-> parsed.provider, value |-> <<>>])
           k == MapIndex(withKey, parsed.provider)
       IN [withKey EXCEPT ![k].value = Append(@, item)]

CompareIds(a, b) == LocaleCompare(a.id, b.id)
CompareDisplayNames(a, b) == LocaleCompare(a.displayName, b.displayName)

RECURSIVE InsertModel(_, _)
\* x goes after every element that does not compare greater than it
InsertModel(x, s) ==
  IF s = <<>> THEN <<x>>
  ELSE IF CompareIds(x, Head(s)) < 0 THEN <<x>> \o s
  ELSE <<Head(s)>> \o InsertModel(x, Tail(s))

RECURSIVE SortedModels(_)
\* models.sort(...) of generateEndpointConfig, a stable sort: it sorts the group in place
SortedModels(models) ==
  IF models = <<>> THEN <<>>
  ELSE InsertModel(models[Len(models)], SortedModels(SubSeq(models, 1, Len(models) - 1)))

RECURSIVE MetadataOf(_)
\* sortedModels.reduce(...): later entries overwrite earlier ones with the same id
MetadataOf(sortedModels) ==
  IF sortedModels = <<>> THEN <<>>
  ELSE LET m == sortedModels[Len(sortedModels)]
       IN (m.id :> [displayName |-> getModelDisplayName(m.id),
                    contextLength |-> m.contextLength])
          @@ MetadataOf(SubSeq(sortedModels, 1, Len(sortedModels) - 1))

generateEndpointConfig(provider, models) ==
  LET displayName == getProviderDisplayName(provider)
      sortedModels == SortedModels(models)
  IN [name |-> OPENROUTER \o <<"-">> \o provider,
      displayName |-> displayName,
      apiKey |-> "user_provided",
      baseURL |-> LITELLM_BASE_URL,
      iconURL |-> getProviderIconURL(provider),
      modelDisplayLabel |-> displayName,
      models |-> [default |-> [i \in 1..Len(sortedModels) |-> sortedModels[i].id],
                  fetch |-> FALSE],
      titleConvo |-> TRUE,
      titleModel |-> IF sortedModels = <<>> \/ sortedModels[1].id = <<>>
                     THEN Null ELSE sortedModels[1].id,
      modelMetadata |-> MetadataOf(sortedModels)]

\* ---------------------------------------------------- remote catalog
\* model ids "b/y", "a/x", "b/x", "a/z"
ID_BY == <<"b","/","y">>
ID_AX == <<"a","/","x">>
ID_BX == <<"b","/","x">>
ID_AZ == <<"a","/","z">>

Entry(id) == [id |-> id, name |-> Undefined, context_length |-> 4096, pricing |-> "pricing"]

CatalogA == <<Entry(ID_BY), Entry(ID_AX), Entry(ID_BX)>>
CatalogB == <<Entry(ID_AZ)>>
\* an array whose entry has no id: parseModelId(undefined) throws a TypeError
CatalogMalformed == <<Entry(Undefined)>>
\* the catalog an earlier process fetched and persisted
CatalogPrior == <<Entry(ID_AX)>>

\* what axios.get can produce: a body with an array under data, a body of another
\* shape, or a rejection (network error, timeout, non-success status)
Responses ==
  {[kind |-> "ok", data |-> c] : c \in {CatalogA, CatalogB, CatalogMalformed, <<>>}}
    \cup {[kind |-> "badshape", data |-> <<>>], [kind |-> "error", data |-> <<>>]}

fetchOpenRouterModels(response) ==
  IF response.kind = "ok" THEN response.data ELSE <<>>

\* ------------------------------------------------ the load pipeline
\* groupModelsByProvider throws on the first entry whose id is not a string
GroupingThrows(models) == \E i \in 1..Len(models) : models[i].id = Undefined

\* providerModels once generateEndpointConfig has sorted every group in place
GroupsSorted(groups) ==
  [i \in 1..Len(groups) |-> [key |-> groups[i].key, value |-> SortedModels(groups[i].value)]]

RECURSIVE InsertEndpoint_BeforeEquals(_, _)
\* x goes before the elements it compares equal to
InsertEndpoint_BeforeEquals(x, s) ==
  IF s = <<>> THEN <<x>>
  ELSE IF CompareDisplayNames(x, Head(s)) <= 0 THEN <<x>> \o s
  ELSE <<Head(s)>> \o InsertEndpoint_BeforeEquals(x, Tail(s))

RECURSIVE InsertEndpoint(_, _)
\* x goes after every element that does not compare greater than it
InsertEndpoint(x, s) ==
  IF s = <<>> THEN <<x>>
  ELSE IF CompareDisplayNames(x, Head(s)) < 0 THEN <<x>> \o s
  ELSE <<Head(s)>> \o InsertEndpoint(x, Tail(s))

RECURSIVE SortedEndpoints(_)
\* endpoints.sort(...) of loadDynamicEndpoints, a stable sort
SortedEndpoints(endpoints) ==
  IF endpoints = <<>> THEN <<>>
  ELSE InsertEndpoint(endpoints[Len(endpoints)],
                      SortedEndpoints(SubSeq(endpoints, 1, Len(endpoints) - 1)))

\* the for-loop over providerModels followed by endpoints.sort
BuildEndpoints(groups) ==
  SortedEndpoints([i \in 1..Len(groups) |->
                     generateEndpointConfig(groups[i].key, groups[i].value)])

RECURSIVE MergeMetadata(_)
\* Object.assign(allModelMetadata, endpointConfig.modelMetadata) in group order
MergeMetadata(groups) ==
  IF groups = <<>> THEN <<>>
  ELSE LET g == groups[Len(groups)]
       IN generateEndpointConfig(g.key, g.value).modelMetadata
          @@ MergeMetadata(SubSeq(groups, 1, Len(groups) - 1))

\* the replacement of dynamicEndpointsCache after a fetch with entries
InstalledCache(models, t) ==
  LET groups == groupModelsByProvider(models)
  IN [endpoints |-> BuildEndpoints(groups),
      providerModels |-> GroupsSorted(groups),
      modelMetadata |-> MergeMetadata(groups),
      lastFetched |-> t,
      isLoading |-> FALSE]

\* the snapshot is written without the model metadata
SnapshotOf_DropsMetadata(models, t) ==
  LET groups == groupModelsByProvider(models)
  IN [endpoints |-> BuildEndpoints(groups),
      modelMetadata |-> <<>>,
      lastFetched |-> t]

\* the object handed to cache.set('dynamicEndpoints', ...)
SnapshotOf(models, t) ==
  LET groups == groupModelsByProvider(models)
  IN [endpoints |-> BuildEndpoints(groups),
      modelMetadata |-> MergeMetadata(groups),
      lastFetched |-> t]

\* the snapshot-shaped part of a cache
Persistable(c) ==
  [endpoints |-> c.endpoints, modelMetadata |-> c.modelMetadata, lastFetched |-> c.lastFetched]

EmptyCache ==
  [endpoints |-> <<>>, providerModels |-> <<>>, modelMetadata |-> <<>>,
   lastFetched |-> NullTime, isLoading |-> FALSE]

\* --------------------------------------------------------------- state
VARIABLES
  cache,      \* dynamicEndpointsCache
  store,      \* the durable store's 'dynamicEndpoints' key: <<>> or <<snapshot>>
  clock,      \* Date.now()
  pc,         \* where each caller of loadDynamicEndpoints is suspended
  force,      \* the call's force argument
  now,        \* the call's const now
  built,      \* the call's locals endpoints, allModelMetadata (with now), once built
  ret,        \* <<>> until the call returns, then <<the returned array>>
  trail,      \* the call's events so far (history)
  seen,       \* endpoints, modelMetadata, lastFetched of the cache when the call began (history)
  joined,     \* for a waiting call: the in-flight calls it found (history)
  callNo,     \* number of the caller's current call (history)
  calls,      \* load invocations so far
  arg,        \* the argument handed to a function called on its own
  result,     \* <<>> until that function returned, then <<its name and value>>
  timer,      \* <<>>, or <<the interval timer of startRefreshScheduler>>
  enabled,    \* process.env.ENABLE_DYNAMIC_ENDPOINTS === 'true'
  customFile, \* what loadCustomConfig() resolves to: <<>> (null) or <<the config>>
  appStore,   \* the APP_CONFIG store's '_BASE_' key: <<>> or <<the base config>>
  app,        \* each getAppConfig call: where it is suspended, its arguments and locals
  appCalls,   \* getAppConfig invocations so far
  masterKey,  \* process.env.LITELLM_MASTER_KEY is set
  dbModels,   \* mongoose.models.User and mongoose.models.Key are registered
  users,      \* the User collection, in the order find() returns it
  keyRecords, \* the ids of the users with a Key record named 'litellm'
  issued,     \* per user, the virtual keys the LiteLLM proxy generated (history)
  mig,        \* the migrateLiteLLMKeys call: where it is suspended and its locals
  reports     \* what each run of migrateLiteLLMKeys returned and found (history)

\* the state of the service, and the state of a direct call of one of its functions
serviceVars == <<cache, store, clock, pc, force, now, built, ret, trail, seen, joined, callNo, calls>>
callVars == <<arg, result>>
appVars == <<enabled, customFile, appStore, app, appCalls>>
migVars == <<masterKey, dbModels, users, keyRecords, issued, mig, reports>>
vars == <<serviceVars, callVars, timer, appVars, migVars>>

NoSnapshot == [endpoints |-> <<>>, modelMetadata |-> <<>>, lastFetched |-> NullTime]
\* no function is being called on its own
NoArg == [kind |-> "none", value |-> <<>>]
\* no role argument
NoRole == "none"
\* a getAppConfig slot before its first call
IdleApp == [pc |-> "idle", role |-> NoRole, refresh |-> FALSE, config |-> <<>>, ret |-> <<>>]
\* the application-config loader is not running
NoApp ==
  /\ enabled = FALSE
  /\ customFile = <<>>
  /\ appStore = <<>>
  /\ app = [p \in Procs |-> IdleApp]
  /\ appCalls = 0

\* the migrateLiteLLMKeys call before it is made
IdleMig == [pc |-> "idle", users |-> <<>>, usersWithKeys |-> {}, i |-> 0,
            migrated |-> 0, skipped |-> 0, failed |-> 0, litellmKey |-> <<>>,
            atStart |-> {}]
\* the key migration is not running
NoMig ==
  /\ masterKey = FALSE
  /\ dbModels = FALSE
  /\ users = <<>>
  /\ keyRecords = {}
  /\ issued = <<>>
  /\ mig = IdleMig
  /\ reports = <<>>

Init ==
  /\ cache = EmptyCache
  /\ store \in {<<>>, <<SnapshotOf(CatalogPrior, PriorTime)>>}
  /\ clock = StartTime
  /\ pc = [p \in Procs |-> "idle"]
  /\ force = [p \in Procs |-> FALSE]
  /\ now = [p \in Procs |-> NullTime]
  /\ built = [p \in Procs |-> NoSnapshot]
  /\ ret = [p \in Procs |-> <<>>]
  /\ trail = [p \in Procs |-> <<>>]
  /\ seen = [p \in Procs |-> NoSnapshot]
  /\ joined = [p \in Procs |-> {}]
  /\ callNo = [p \in Procs |-> 0]
  /\ calls = 0
  /\ arg = NoArg
  /\ result = <<>>
  /\ timer = <<>>
  /\ NoApp
  /\ NoMig

\* the test compares against the TTL taken as seconds
ServeFromCache_TtlInSeconds(f, c, t) ==
  /\ ~f
  /\ c.lastFetched # NullTime
  /\ (t - c.lastFetched) < CACHE_TTL_MS \div 1000
  /\ Len(c.endpoints) > 0

\* the test forgets the force argument
ServeFromCache_IgnoresForce(f, c, t) ==
  /\ c.lastFetched # NullTime
  /\ (t - c.lastFetched) < CACHE_TTL_MS
  /\ Len(c.endpoints) > 0

\* the validity test at the top of loadDynamicEndpoints
ServeFromCache(f, c, t) ==
  /\ ~f
  /\ c.lastFetched # NullTime
  /\ (t - c.lastFetched) < CACHE_TTL_MS
  /\ Len(c.endpoints) > 0

\* the callers between 'isLoading set to true' and 'their remote call returned'
InFlight == {q \in Procs : pc[q] = "fetch"}

\* the first event of a call's history: which entry point made it
CallEvent(f) == IF f THEN "refresh" ELSE "get"

\* return value v from the call of p; the call's locals are gone
Return(p, v, events) ==
  /\ pc' = [pc EXCEPT ![p] = "done"]
  /\ ret' = [ret EXCEPT ![p] = <<v>>]
  /\ trail' = [trail EXCEPT ![p] = events]
  /\ force' = [force EXCEPT ![p] = FALSE]
  /\ now' = [now EXCEPT ![p] = NullTime]
  /\ built' = [built EXCEPT ![p] = NoSnapshot]
  /\ seen' = [seen EXCEPT ![p] = NoSnapshot]

\* loadDynamicEndpoints(f) up to its first await (or its return from the cache)
LoadStart(p, f) ==
  /\ pc[p] \in {"idle", "done"}
  /\ calls < MaxCalls
  /\ calls' = calls + 1
  /\ callNo' = [callNo EXCEPT ![p] = @ + 1]
  /\ IF ServeFromCache(f, cache, clock)
     THEN /\ Return(p, cache.endpoints, <<CallEvent(f), "fresh">>)
          /\ joined' = [joined EXCEPT ![p] = {}]
          /\ cache' = cache
     ELSE /\ force' = [force EXCEPT ![p] = f]
          /\ now' = [now EXCEPT ![p] = clock]
          /\ seen' = [seen EXCEPT ![p] = Persistable(cache)]
          /\ ret' = [ret EXCEPT ![p] = <<>>]
          /\ UNCHANGED built
          /\ IF cache.isLoading
             THEN /\ pc' = [pc EXCEPT ![p] = "wait"]
                  /\ trail' = [trail EXCEPT ![p] = <<CallEvent(f), "wait">>]
                  /\ joined' = [joined EXCEPT ![p] = {<<q, callNo[q]>> : q \in InFlight}]
                  /\ cache' = cache
             ELSE /\ pc' = [pc EXCEPT ![p] = "fetch"]
                  /\ trail' = [trail EXCEPT ![p] = <<CallEvent(f), "remote">>]
                  /\ joined' = [joined EXCEPT ![p] = {}]
                  /\ cache' = [cache EXCEPT !.isLoading = TRUE]
  /\ UNCHANGED <<store, clock>>

\* the outer catch leaves the flag as it found it
OuterCatch_KeepsLoading(p, event) ==
  /\ cache' = cache
  /\ pc' = [pc EXCEPT ![p] = "get"]
  /\ trail' = [trail EXCEPT ![p] = Append(@, event)]
  /\ UNCHANGED <<ret, force, now, built, seen>>

\* the outer catch up to its await: clear the flag of the current cache object and
\* ask the durable store for the snapshot
OuterCatch(p, event) ==
  /\ cache' = [cache EXCEPT !.isLoading = FALSE]
  /\ pc' = [pc EXCEPT ![p] = "get"]
  /\ trail' = [trail EXCEPT ![p] = Append(@, event)]
  /\ UNCHANGED <<ret, force, now, built, seen>>

\* the inner catch rethrows instead of logging
InnerCatch_Rethrows(p) ==
  /\ pc' = [pc EXCEPT ![p] = "threw"]
  /\ trail' = [trail EXCEPT ![p] = Append(@, "getFail")]
  /\ UNCHANGED <<cache, ret, force, now, built, seen>>

\* the inner catch: a rejected cache.get is logged and the call returns []
InnerCatch(p) ==
  /\ Return(p, <<>>, Append(trail[p], "getFail"))
  /\ UNCHANGED cache

\* the branch forgets the endpoints it is meant to keep serving
NoModelsFetched_DropsEndpoints(c) == [c EXCEPT !.isLoading = FALSE, !.endpoints = <<>>]

\* the cache leaves the zero-entries branch with the flag still set
NoModelsFetched_KeepsLoading(c) == c

\* the models.length === 0 branch: only the flag of the cache changes
NoModelsFetched(c) == [c EXCEPT !.isLoading = FALSE]

\* the event a response leaves in the call's history
ResponseEvent(response) ==
  IF response.kind # "ok" THEN "failed"
  ELSE IF response.data = <<>> THEN "zero"
  ELSE IF GroupingThrows(response.data) THEN "malformed"
  ELSE "entries"

\* the remote call of p settles: loadDynamicEndpoints from the await of
\* fetchOpenRouterModels to the next await or return
FetchReturn(p, response) ==
  /\ pc[p] = "fetch"
  /\ LET models == fetchOpenRouterModels(response)
     IN IF Len(models) = 0
        THEN /\ cache' = NoModelsFetched(cache)
             /\ Return(p, cache.endpoints, Append(trail[p], ResponseEvent(response)))
        ELSE IF GroupingThrows(models)
        THEN /\ OuterCatch(p, ResponseEvent(response))
        ELSE /\ cache' = InstalledCache(models, now[p])
             /\ built' = [built EXCEPT ![p] = SnapshotOf(models, now[p])]
             /\ pc' = [pc EXCEPT ![p] = "set"]
             /\ trail' = [trail EXCEPT ![p] = Append(@, ResponseEvent(response))]
             /\ UNCHANGED <<ret, force, now, seen>>
  /\ UNCHANGED <<store, clock, joined, callNo, calls>>

\* cache.set settles: resolved, the snapshot is stored and the call returns its
\* endpoints; rejected, the outer catch runs
StoreSetReturn(p, ok) ==
  /\ pc[p] = "set"
  /\ IF ok
     THEN /\ store' = <<built[p]>>
          /\ Return(p, built[p].endpoints, Append(trail[p], "setOk"))
          /\ UNCHANGED cache
     ELSE /\ OuterCatch(p, "setFail")
          /\ UNCHANGED store
  /\ UNCHANGED <<clock, joined, callNo, calls>>

\* the snapshot's endpoints are adopted without its model metadata
StoreGetReturn_KeepsMetadata(p, ok) ==
  /\ pc[p] = "get"
  /\ IF ok
     THEN IF store # <<>>
          THEN /\ cache' = [cache EXCEPT !.endpoints = store[1].endpoints,
                                         !.lastFetched = store[1].lastFetched]
               /\ Return(p, store[1].endpoints, Append(trail[p], "getHit"))
          ELSE /\ Return(p, <<>>, Append(trail[p], "getMiss"))
               /\ UNCHANGED cache
     ELSE InnerCatch(p)
  /\ UNCHANGED <<store, clock, joined, callNo, calls>>

\* the adopted snapshot is stamped with the time of the call that adopts it
StoreGetReturn_StampsNow(p, ok) ==
  /\ pc[p] = "get"
  /\ IF ok
     THEN IF store # <<>>
          THEN /\ cache' = [cache EXCEPT !.endpoints = store[1].endpoints,
                                         !.modelMetadata = store[1].modelMetadata,
                                         !.lastFetched = now[p]]
               /\ Return(p, store[1].endpoints, Append(trail[p], "getHit"))
          ELSE /\ Return(p, <<>>, Append(trail[p], "getMiss"))
               /\ UNCHANGED cache
     ELSE InnerCatch(p)
  /\ UNCHANGED <<store, clock, joined, callNo, calls>>

\* cache.get settles: a snapshot is adopted field by field and returned; no snapshot
\* or a rejection returns []
StoreGetReturn(p, ok) ==
  /\ pc[p] = "get"
  /\ IF ok
     THEN IF store # <<>>
          THEN /\ cache' = [cache EXCEPT !.endpoints = store[1].endpoints,
                                         !.modelMetadata = store[1].modelMetadata,
                                         !.lastFetched = store[1].lastFetched]
               /\ Return(p, store[1].endpoints, Append(trail[p], "getHit"))
          ELSE /\ Return(p, <<>>, Append(trail[p], "getMiss"))
               /\ UNCHANGED cache
     ELSE InnerCatch(p)
  /\ UNCHANGED <<store, clock, joined, callNo, calls>>

\* one turn of the polling loop that finds isLoading false
WaitPoll(p) ==
  /\ pc[p] = "wait"
  /\ ~cache.isLoading
  /\ Return(p, cache.endpoints, Append(trail[p], "released"))
  /\ UNCHANGED <<cache, store, clock, joined, callNo, calls>>

\* time passes
Tick ==
  /\ clock < StartTime + MaxTicks * TickMs
  /\ clock' = clock + TickMs
  /\ UNCHANGED <<cache, store, pc, force, now, built, ret, trail, seen, joined, callNo, calls>>

Next ==
  \/ \E p \in Procs, f \in BOOLEAN : LoadStart(p, f) /\ UNCHANGED <<callVars, timer, appVars, migVars>>
  \/ \E p \in Procs, response \in Responses : FetchReturn(p, response) /\ UNCHANGED <<callVars, timer, appVars, migVars>>
  \/ \E p \in Procs, ok \in BOOLEAN : StoreSetReturn(p, ok) /\ UNCHANGED <<callVars, timer, appVars, migVars>>
  \/ \E p \in Procs, ok \in BOOLEAN : StoreGetReturn(p, ok) /\ UNCHANGED <<callVars, timer, appVars, migVars>>
  \/ \E p \in Procs : WaitPoll(p) /\ UNCHANGED <<callVars, timer, appVars, migVars>>
  \/ Tick /\ UNCHANGED <<callVars, timer, appVars, migVars>>

Spec == Init /\ [][Next]_vars

\* the next step of the call of p: the promise it awaits settles (the remote call,
\* cache.set or cache.get), or its 100 ms timer fires and finds isLoading false
Progress(p) ==
  \/ \E response \in Responses : FetchReturn(p, response) /\ UNCHANGED <<callVars, timer, appVars, migVars>>
  \/ \E ok \in BOOLEAN : StoreSetReturn(p, ok) /\ UNCHANGED <<callVars, timer, appVars, migVars>>
  \/ \E ok \in BOOLEAN : StoreGetReturn(p, ok) /\ UNCHANGED <<callVars, timer, appVars, migVars>>
  \/ WaitPoll(p) /\ UNCHANGED <<callVars, timer, appVars, migVars>>

\* every remote call and every durable-store operation completes, and timers fire
FairSpec == Spec /\ \A p \in Procs : WF_vars(Progress(p))

\* ------------------------------------------------------ refresh scheduler
\* the intervals the scheduler is started with: the default, and a shorter one
Intervals == {CACHE_TTL_MS, TickMs}

\* startRefreshScheduler(intervalMs): setInterval registers the timer
startRefreshScheduler(intervalMs) ==
  /\ timer = <<>>
  /\ timer' = <<[intervalMs |-> intervalMs, due |-> clock + intervalMs]>>

\* the timer is a setTimeout: it is gone once it has fired
SchedulerTick_OneShot(p) ==
  /\ timer # <<>>
  /\ clock >= timer[1].due
  /\ timer' = <<>>
  /\ LoadStart(p, TRUE)

\* the timer fires: it is re-armed and its callback runs up to its await, that is
\* refreshDynamicEndpoints() up to the first await of loadDynamicEndpoints(true)
SchedulerTick(p) ==
  /\ timer # <<>>
  /\ clock >= timer[1].due
  /\ timer' = <<[timer[1] EXCEPT !.due = clock + timer[1].intervalMs]>>
  /\ LoadStart(p, TRUE)

\* the service with its scheduler: callers use getDynamicEndpoints, the timer's
\* callback uses refreshDynamicEndpoints
NextSched ==
  \/ \E intervalMs \in Intervals :
       startRefreshScheduler(intervalMs) /\ UNCHANGED <<serviceVars, callVars, appVars, migVars>>
  \/ \E p \in Procs : SchedulerTick(p) /\ UNCHANGED <<callVars, appVars, migVars>>
  \/ \E p \in Procs : LoadStart(p, FALSE) /\ UNCHANGED <<callVars, timer, appVars, migVars>>
  \/ \E p \in Procs, response \in Responses : FetchReturn(p, response) /\ UNCHANGED <<callVars, timer, appVars, migVars>>
  \/ \E p \in Procs, ok \in BOOLEAN : StoreSetReturn(p, ok) /\ UNCHANGED <<callVars, timer, appVars, migVars>>
  \/ \E p \in Procs, ok \in BOOLEAN : StoreGetReturn(p, ok) /\ UNCHANGED <<callVars, timer, appVars, migVars>>
  \/ \E p \in Procs : WaitPoll(p) /\ UNCHANGED <<callVars, timer, appVars, migVars>>
  \/ Tick /\ UNCHANGED <<callVars, timer, appVars, migVars>>

SchedSpec == Init /\ [][NextSched]_vars

\* ------------------------------------------- application-config loader
\* getAppConfig invocations per run
MaxAppCalls == 2
Roles == {NoRole, "ADMIN"}

\* statically configured custom endpoints
STATIC_1 == [name |-> <<"s","1">>]
STATIC_2 == [name |-> <<"s","2">>]
\* a config object: endpoints is <<>> (absent) or <<the endpoints object>>, whose
\* custom is <<>> (not an array) or <<the array>>
EmptyConfig == [endpoints |-> <<>>]
\* what loadCustomConfig can resolve to: null, a config whose endpoints have no
\* custom array, and one with two custom endpoints
CustomFiles ==
  {<<>>,
   <<[endpoints |-> <<[custom |-> <<>>]>>]>>,
   <<[endpoints |-> <<[custom |-> <<<<STATIC_1, STATIC_2>>>>]>>]>>}

\* the custom array of a config, [] when it has none
CustomOf(config) ==
  IF config.endpoints = <<>> \/ config.endpoints[1].custom = <<>> THEN <<>>
  ELSE config.endpoints[1].custom[1]

\* the dynamic endpoints are put in front of the static ones
MergeDynamic_DynamicFirst(config, dynamicEndpoints) ==
  IF Len(dynamicEndpoints) > 0
  THEN [endpoints |-> <<[custom |-> <<dynamicEndpoints \o CustomOf(config)>>]>>]
  ELSE config

\* the body of 'if (dynamicEndpoints && dynamicEndpoints.length > 0)'
MergeDynamic(config, dynamicEndpoints) ==
  IF Len(dynamicEndpoints) > 0
  THEN [endpoints |-> <<[custom |-> <<CustomOf(config) \o dynamicEndpoints>>]>>]
  ELSE config

\* the AppConfig that AppService builds from a config, left uninterpreted
AppService(config) == [config |-> config]

isDynamicEndpointsEnabled == enabled

\* getAppConfig returns v / throws; the call's arguments and locals are gone
AppReturn(p, v) == app' = [app EXCEPT ![p] = [IdleApp EXCEPT !.pc = "returned", !.ret = <<v>>]]
AppThrow(p) == app' = [app EXCEPT ![p] = [IdleApp EXCEPT !.pc = "threw"]]

\* getAppConfig({role, refresh}) up to its first await
getAppConfig(p, role, refresh) ==
  /\ app[p].pc \in {"idle", "returned", "threw"}
  /\ appCalls < MaxAppCalls
  /\ appCalls' = appCalls + 1
  /\ app' = [app EXCEPT ![p] = [pc |-> IF refresh THEN "base" ELSE "lookup",
                                 role |-> role, refresh |-> refresh,
                                 config |-> <<>>, ret |-> <<>>]]
  /\ UNCHANGED <<enabled, customFile, appStore>>

\* cache.get(cacheKey) settles; no role key is ever written
LookupReturn(p, ok) ==
  /\ app[p].pc = "lookup"
  /\ IF ok
     THEN LET cached == IF app[p].role = NoRole THEN appStore ELSE <<>>
          IN IF cached # <<>> THEN AppReturn(p, cached[1])
             ELSE app' = [app EXCEPT ![p].pc = "base"]
     ELSE AppThrow(p)
  /\ UNCHANGED <<enabled, customFile, appStore, appCalls>>

\* cache.get(BASE_CONFIG_KEY) settles: a stored base config is returned, otherwise
\* loadBaseConfig starts
BaseReturn(p, ok) ==
  /\ app[p].pc = "base"
  /\ IF ok
     THEN IF appStore # <<>> THEN AppReturn(p, appStore[1])
          ELSE app' = [app EXCEPT ![p].pc = "custom"]
     ELSE AppThrow(p)
  /\ UNCHANGED <<enabled, customFile, appStore, appCalls>>

\* loadCustomConfig settles, flag off: loadBaseConfig hands the config to AppService
CustomReturnDisabled(p) ==
  /\ app[p].pc = "custom"
  /\ ~isDynamicEndpointsEnabled
  /\ app' = [app EXCEPT ![p].pc = "save",
                         ![p].config = IF customFile = <<>> THEN <<EmptyConfig>> ELSE customFile]
  /\ UNCHANGED <<enabled, customFile, appStore, appCalls>>

\* loadCustomConfig settles, flag on: loadBaseConfig calls getDynamicEndpoints()
CustomReturnEnabled(p) ==
  /\ app[p].pc = "custom"
  /\ isDynamicEndpointsEnabled
  /\ app' = [app EXCEPT ![p].pc = "dynamic",
                         ![p].config = IF customFile = <<>> THEN <<EmptyConfig>> ELSE customFile]
  /\ LoadStart(p, FALSE)
  /\ UNCHANGED <<enabled, customFile, appStore, appCalls>>

\* getDynamicEndpoints() settles: its list is merged, a rejection is logged; the
\* config goes to AppService
DynamicReturn(p) ==
  /\ app[p].pc = "dynamic"
  /\ pc[p] \in {"done", "threw"}
  /\ app' = [app EXCEPT ![p].pc = "save",
                         ![p].config = IF pc[p] = "done"
                                       THEN <<MergeDynamic(@[1], ret[p][1])>>
                                       ELSE @]
  /\ UNCHANGED <<enabled, customFile, appStore, appCalls>>

\* cache.set(BASE_CONFIG_KEY, baseConfig) settles
SaveReturn(p, ok) ==
  /\ app[p].pc = "save"
  /\ IF ok
     THEN /\ appStore' = <<AppService(app[p].config[1])>>
          /\ AppReturn(p, AppService(app[p].config[1]))
     ELSE /\ AppThrow(p)
          /\ UNCHANGED appStore
  /\ UNCHANGED <<enabled, customFile, appCalls>>

InitApp ==
  /\ cache = EmptyCache
  /\ store \in {<<>>, <<SnapshotOf(CatalogPrior, PriorTime)>>}
  /\ clock = StartTime
  /\ pc = [p \in Procs |-> "idle"]
  /\ force = [p \in Procs |-> FALSE]
  /\ now = [p \in Procs |-> NullTime]
  /\ built = [p \in Procs |-> NoSnapshot]
  /\ ret = [p \in Procs |-> <<>>]
  /\ trail = [p \in Procs |-> <<>>]
  /\ seen = [p \in Procs |-> NoSnapshot]
  /\ joined = [p \in Procs |-> {}]
  /\ callNo = [p \in Procs |-> 0]
  /\ calls = 0
  /\ arg = NoArg
  /\ result = <<>>
  /\ timer = <<>>
  /\ enabled \in BOOLEAN
  /\ customFile \in CustomFiles
  /\ appStore = <<>>
  /\ app = [p \in Procs |-> IdleApp]
  /\ appCalls = 0
  /\ NoMig

\* the loader and the service it calls
NextApp ==
  \/ \E p \in Procs, role \in Roles, refresh \in BOOLEAN :
       getAppConfig(p, role, refresh) /\ UNCHANGED <<serviceVars, callVars, timer, migVars>>
  \/ \E p \in Procs, ok \in BOOLEAN :
       LookupReturn(p, ok) /\ UNCHANGED <<serviceVars, callVars, timer, migVars>>
  \/ \E p \in Procs, ok \in BOOLEAN :
       BaseReturn(p, ok) /\ UNCHANGED <<serviceVars, callVars, timer, migVars>>
  \/ \E p \in Procs : CustomReturnDisabled(p) /\ UNCHANGED <<serviceVars, callVars, timer, migVars>>
  \/ \E p \in Procs : CustomReturnEnabled(p) /\ UNCHANGED <<callVars, timer, migVars>>
  \/ \E p \in Procs : DynamicReturn(p) /\ UNCHANGED <<serviceVars, callVars, timer, migVars>>
  \/ \E p \in Procs, ok \in BOOLEAN :
       SaveReturn(p, ok) /\ UNCHANGED <<serviceVars, callVars, timer, migVars>>
  \/ \E p \in Procs, response \in Responses : FetchReturn(p, response) /\ UNCHANGED <<callVars, timer, appVars, migVars>>
  \/ \E p \in Procs, ok \in BOOLEAN : StoreSetReturn(p, ok) /\ UNCHANGED <<callVars, timer, appVars, migVars>>
  \/ \E p \in Procs, ok \in BOOLEAN : StoreGetReturn(p, ok) /\ UNCHANGED <<callVars, timer, appVars, migVars>>
  \/ \E p \in Procs : WaitPoll(p) /\ UNCHANGED <<callVars, timer, appVars, migVars>>
  \/ Tick /\ UNCHANGED <<callVars, timer, appVars, migVars>>

AppSpec == InitApp /\ [][NextApp]_vars

\* ------------------------------------------- functions called on their own
\* tokens an identifier is built from, and identifiers of at most n tokens
MaxIdTokens == 5
IdTokens == {<<"a">>, <<"/">>, OPENROUTER, UNKNOWN}

RECURSIVE IdsOfTokens(_)
IdsOfTokens(n) ==
  IF n = 0 THEN {<<>>}
  ELSE IdsOfTokens(n - 1) \cup {id \o t : id \in IdsOfTokens(n - 1), t \in IdTokens}

\* identifiers of catalog entries: two slugs with the display name "Meta", the
\* namespaced three-segment form, an id without provider, the empty id, mixed case
ID_META == <<"m","e","t","a","/","m">>
ID_LLAMA == <<"m","e","t","a","-","l","l","a","m","a","/","l">>
ID_OR_AW == OPENROUTER \o <<"/","a","/","w">>
ID_BARE == <<"q">>
ID_EMPTY == <<>>
ID_AUPPER == <<"a","/","Y">>
CatalogIds == {ID_BY, ID_AX, ID_META, ID_LLAMA, ID_OR_AW, ID_BARE, ID_EMPTY, ID_AUPPER}

MaxCatalogLen == 3
RECURSIVE CatalogsOf(_)
CatalogsOf(n) ==
  IF n = 0 THEN {<<>>}
  ELSE CatalogsOf(n - 1)
         \cup {Append(c, Entry(id)) : c \in {d \in CatalogsOf(n - 1) : Len(d) = n - 1},
                                       id \in CatalogIds}

\* the arguments of generateEndpointConfig: every group of every catalog, and an
\* empty group
GroupArgs ==
  {[provider |-> UNKNOWN, models |-> <<>>]}
    \cup UNION {{[provider |-> g.key, models |-> g.value] :
                   g \in {groupModelsByProvider(c)[i] :
                            i \in 1..Len(groupModelsByProvider(c))}} :
                c \in CatalogsOf(MaxCatalogLen)}

\* one slash or more is accepted
isOpenRouterModelId_AtLeastOneSlash(modelId) ==
  IF modelId = <<>> \/ modelId = Null \/ modelId = Undefined THEN FALSE
  ELSE LET slashCount == Cardinality({i \in 1..Len(modelId) : modelId[i] = "/"})
       IN slashCount >= 1 /\ Head(modelId) # "/" /\ modelId[Len(modelId)] # "/"

\* isOpenRouterModelId of the display utilities
isOpenRouterModelId(modelId) ==
  IF modelId = <<>> \/ modelId = Null \/ modelId = Undefined THEN FALSE
  ELSE LET slashCount == Cardinality({i \in 1..Len(modelId) : modelId[i] = "/"})
       IN slashCount = 1 /\ Head(modelId) # "/" /\ modelId[Len(modelId)] # "/"

\* getModelDisplayName of the display utilities (the client's, not the service's)
clientGetModelDisplayName(modelId) ==
  IF modelId = <<>> \/ modelId = Null \/ modelId = Undefined THEN <<>>
  ELSE IF isOpenRouterModelId(modelId)
  THEN LET parts == Split(modelId, "/")
       IN IF parts[2] = <<>> THEN modelId ELSE parts[2]
  ELSE modelId

\* endpointName?.startsWith('openrouter-')
IsOpenRouterEndpoint(endpointName) ==
  /\ endpointName # Undefined
  /\ Len(endpointName) >= Len(OPENROUTER) + 1
  /\ SubSeq(endpointName, 1, Len(OPENROUTER) + 1) = OPENROUTER \o <<"-">>

transformModelForDisplay(modelId, endpointName) ==
  IF modelId = <<>> \/ modelId = Null \/ modelId = Undefined THEN <<>>
  ELSE IF IsOpenRouterEndpoint(endpointName) THEN clientGetModelDisplayName(modelId)
  ELSE IF isOpenRouterModelId(modelId) THEN clientGetModelDisplayName(modelId)
  ELSE modelId

\* provider is Undefined when the third argument is not given
getFullModelId(displayName, endpointName, provider) ==
  IF displayName = <<>> \/ displayName = Null \/ displayName = Undefined THEN <<>>
  ELSE IF isOpenRouterModelId(displayName) THEN displayName
  ELSE IF provider # Undefined /\ provider # <<>> THEN provider \o <<"/">> \o displayName
  ELSE IF IsOpenRouterEndpoint(endpointName)
  THEN LET extractedProvider ==
             SubSeq(endpointName, Len(OPENROUTER) + 2, Len(endpointName))
       IN extractedProvider \o <<"/">> \o displayName
  ELSE displayName

InitCall ==
  /\ cache = EmptyCache
  /\ store = <<>>
  /\ clock = StartTime
  /\ pc = [p \in Procs |-> "idle"]
  /\ force = [p \in Procs |-> FALSE]
  /\ now = [p \in Procs |-> NullTime]
  /\ built = [p \in Procs |-> NoSnapshot]
  /\ ret = [p \in Procs |-> <<>>]
  /\ trail = [p \in Procs |-> <<>>]
  /\ seen = [p \in Procs |-> NoSnapshot]
  /\ joined = [p \in Procs |-> {}]
  /\ callNo = [p \in Procs |-> 0]
  /\ calls = 0
  /\ arg \in [kind : {"id"}, value : IdsOfTokens(MaxIdTokens)]
              \cup [kind : {"catalog"}, value : CatalogsOf(MaxCatalogLen)]
              \cup [kind : {"group"}, value : GroupArgs]
  /\ result = <<>>
  /\ timer = <<>>
  /\ NoApp
  /\ NoMig

\* one call of fn with the argument, returning v
Returned(fn, v) ==
  /\ result = <<>>
  /\ result' = <<[fn |-> fn, value |-> v]>>
  /\ UNCHANGED <<serviceVars, arg, timer, appVars, migVars>>

CallParseModelId ==
  /\ arg.kind = "id"
  /\ Returned("parseModelId", parseModelId(arg.value))

CallIsOpenRouterModelId ==
  /\ arg.kind = "id"
  /\ Returned("isOpenRouterModelId", isOpenRouterModelId(arg.value))

CallGenerateEndpointConfig ==
  /\ arg.kind = "group"
  /\ Returned("generateEndpointConfig",
              generateEndpointConfig(arg.value.provider, arg.value.models))

\* the part of loadDynamicEndpoints between the fetch and the write of the
\* snapshot, for a fetched catalog with at least one entry
CallInstall ==
  /\ arg.kind = "catalog"
  /\ Len(arg.value) > 0
  /\ Returned("install", [cache |-> InstalledCache(arg.value, clock),
                          returned |-> SnapshotOf(arg.value, clock).endpoints])

\* an id shown under the endpoint the service generated for its provider, then
\* turned back into the id sent with a request
CallDisplayRoundTrip ==
  /\ arg.kind = "id"
  /\ LET endpointName == generateEndpointConfig(parseModelId(arg.value).provider, <<>>).name
         shown == transformModelForDisplay(arg.value, endpointName)
     IN Returned("displayRoundTrip",
                 [endpointName |-> endpointName,
                  shown |-> shown,
                  fullId |-> getFullModelId(shown, endpointName, Undefined)])

NextCall ==
  \/ CallDisplayRoundTrip
  \/ CallParseModelId
  \/ CallIsOpenRouterModelId
  \/ CallGenerateEndpointConfig
  \/ CallInstall

CallSpec == InitCall /\ [][NextCall]_vars

\* ------------------------------------------------- LiteLLM key migration
\* users in the collection, and runs of the migration per behaviour
MaxUsers == 3
MaxRuns == 2
UserIds == 1..MaxUsers
\* a user document's email: missing, or an address
Emails == {Undefined, <<"u","@","x">>}

RECURSIVE UserLists(_)
\* the collections of at most n users, with ids 1..n in the order find() returns
UserLists(n) ==
  IF n = 0 THEN {<<>>}
  ELSE UserLists(n - 1)
         \cup {Append(l, [_id |-> n, email |-> e]) :
                 l \in {k \in UserLists(n - 1) : Len(k) = n - 1}, e \in Emails}

\* what POST /key/generate can produce: a body with a key, a body without one, a
\* non-success status, or a rejection (network error, unreadable body)
KeyResponses == {"key", "noKey", "notOk", "error"}

\* the virtual key the proxy generates for a user
KeyOf(userId, serial) == <<"sk", userId, serial>>

\* createLiteLLMKeyForUser: the created key, or null on any failure
createLiteLLMKeyForUser(userId, response) ==
  IF ~masterKey THEN Null
  ELSE IF response = "key" THEN KeyOf(userId, issued[userId] + 1)
  ELSE Null

\* the counters a run returns
Counters(m) == [migrated |-> m.migrated, skipped |-> m.skipped, failed |-> m.failed]
Zeros == [migrated |-> 0, skipped |-> 0, failed |-> 0]

\* migrateLiteLLMKeys returns counters c by way of path; the call's locals are gone
MigReturn(c, path, keysAfter) ==
  /\ mig' = [IdleMig EXCEPT !.pc = "returned"]
  /\ reports' = Append(reports, [result |-> c, path |-> path,
                                 keysBefore |-> mig.atStart, keysAfter |-> keysAfter])

RECURSIVE NextStop_IgnoresExistingKeys(_)
\* the loop does not look at usersWithKeys
NextStop_IgnoresExistingKeys(m) ==
  IF m.i > Len(m.users) THEN [m EXCEPT !.pc = "end"]
  ELSE LET user == m.users[m.i]
       IN IF user.email = Undefined \/ user.email = <<>>
          THEN NextStop_IgnoresExistingKeys([m EXCEPT !.skipped = @ + 1, !.i = @ + 1])
          ELSE [m EXCEPT !.pc = "create"]

RECURSIVE NextStop(_)
\* the for-loop from user m.i up to its next await (createLiteLLMKeyForUser) or
\* its end: users with a key and users without email are skipped
NextStop(m) ==
  IF m.i > Len(m.users) THEN [m EXCEPT !.pc = "end"]
  ELSE LET user == m.users[m.i]
       IN IF user._id \in m.usersWithKeys
          THEN NextStop([m EXCEPT !.skipped = @ + 1, !.i = @ + 1])
          ELSE IF user.email = Undefined \/ user.email = <<>>
          THEN NextStop([m EXCEPT !.skipped = @ + 1, !.i = @ + 1])
          ELSE [m EXCEPT !.pc = "create"]

\* the run goes on from the locals m: to the next await, or to its return
Continue(m, keysAfter) ==
  LET n == NextStop(m)
  IN IF n.pc = "end"
     THEN MigReturn(Counters(n), "complete", keysAfter)
     ELSE mig' = n /\ UNCHANGED reports

\* migrateLiteLLMKeys() up to its first await, or its return when the master key
\* or the models are missing
migrateLiteLLMKeys ==
  /\ mig.pc \in {"idle", "returned"}
  /\ Len(reports) < MaxRuns
  /\ IF ~masterKey \/ ~dbModels
     THEN /\ mig' = [IdleMig EXCEPT !.pc = "returned"]
          /\ reports' = Append(reports, [result |-> Zeros, path |-> "skipped",
                                         keysBefore |-> keyRecords, keysAfter |-> keyRecords])
     ELSE /\ mig' = [IdleMig EXCEPT !.pc = "findUsers", !.atStart = keyRecords]
          /\ UNCHANGED reports
  /\ UNCHANGED <<masterKey, dbModels, users, keyRecords, issued>>

\* User.find settles; a rejection is caught by the outer catch
FindUsersReturn(ok) ==
  /\ mig.pc = "findUsers"
  /\ IF ok
     THEN mig' = [mig EXCEPT !.users = users, !.pc = "findKeys"] /\ UNCHANGED reports
     ELSE MigReturn(Zeros, "failed", keyRecords)
  /\ UNCHANGED <<masterKey, dbModels, users, keyRecords, issued>>

\* Key.find({name: 'litellm'}) settles: the loop starts with zeroed counters
FindKeysReturn(ok) ==
  /\ mig.pc = "findKeys"
  /\ IF ok
     THEN Continue([mig EXCEPT !.usersWithKeys = keyRecords, !.i = 1], keyRecords)
     ELSE MigReturn(Zeros, "failed", keyRecords)
  /\ UNCHANGED <<masterKey, dbModels, users, keyRecords, issued>>

\* createLiteLLMKeyForUser settles: without a key the user counts as failed
CreateReturn(response) ==
  /\ mig.pc = "create"
  /\ LET userId == mig.users[mig.i]._id
         litellmKey == createLiteLLMKeyForUser(userId, response)
     IN /\ issued' = IF response = "key" THEN [issued EXCEPT ![userId] = @ + 1] ELSE issued
        /\ IF litellmKey = Null
           THEN Continue([mig EXCEPT !.failed = @ + 1, !.i = @ + 1], keyRecords)
           ELSE /\ mig' = [mig EXCEPT !.litellmKey = <<litellmKey>>, !.pc = "encrypt"]
                /\ UNCHANGED reports
  /\ UNCHANGED <<masterKey, dbModels, users, keyRecords>>

\* encrypt settles; a rejection is caught inside the loop and counts as failed
EncryptReturn(ok) ==
  /\ mig.pc = "encrypt"
  /\ IF ok
     THEN mig' = [mig EXCEPT !.pc = "upsert"] /\ UNCHANGED reports
     ELSE Continue([mig EXCEPT !.failed = @ + 1, !.i = @ + 1, !.litellmKey = <<>>], keyRecords)
  /\ UNCHANGED <<masterKey, dbModels, users, keyRecords, issued>>

\* Key.findOneAndUpdate(..., {upsert: true}) settles
UpsertReturn(ok) ==
  /\ mig.pc = "upsert"
  /\ LET userId == mig.users[mig.i]._id
     IN IF ok
        THEN /\ keyRecords' = keyRecords \cup {userId}
             /\ Continue([mig EXCEPT !.migrated = @ + 1, !.i = @ + 1, !.litellmKey = <<>>],
                         keyRecords \cup {userId})
        ELSE /\ UNCHANGED keyRecords
             /\ Continue([mig EXCEPT !.failed = @ + 1, !.i = @ + 1, !.litellmKey = <<>>],
                         keyRecords)
  /\ UNCHANGED <<masterKey, dbModels, users, issued>>

InitMig ==
  /\ cache = EmptyCache
  /\ store = <<>>
  /\ clock = StartTime
  /\ pc = [p \in Procs |-> "idle"]
  /\ force = [p \in Procs |-> FALSE]
  /\ now = [p \in Procs |-> NullTime]
  /\ built = [p \in Procs |-> NoSnapshot]
  /\ ret = [p \in Procs |-> <<>>]
  /\ trail = [p \in Procs |-> <<>>]
  /\ seen = [p \in Procs |-> NoSnapshot]
  /\ joined = [p \in Procs |-> {}]
  /\ callNo = [p \in Procs |-> 0]
  /\ calls = 0
  /\ arg = NoArg
  /\ result = <<>>
  /\ timer = <<>>
  /\ NoApp
  /\ masterKey \in BOOLEAN
  /\ dbModels \in BOOLEAN
  /\ users \in UserLists(MaxUsers)
  /\ keyRecords \in SUBSET UserIds
  /\ issued = [u \in UserIds |-> 0]
  /\ mig = IdleMig
  /\ reports = <<>>

NextMig ==
  \/ migrateLiteLLMKeys /\ UNCHANGED <<serviceVars, callVars, timer, appVars>>
  \/ \E ok \in BOOLEAN : FindUsersReturn(ok) /\ UNCHANGED <<serviceVars, callVars, timer, appVars>>
  \/ \E ok \in BOOLEAN : FindKeysReturn(ok) /\ UNCHANGED <<serviceVars, callVars, timer, appVars>>
  \/ \E response \in KeyResponses :
       CreateReturn(response) /\ UNCHANGED <<serviceVars, callVars, timer, appVars>>
  \/ \E ok \in BOOLEAN : EncryptReturn(ok) /\ UNCHANGED <<serviceVars, callVars, timer, appVars>>
  \/ \E ok \in BOOLEAN : UpsertReturn(ok) /\ UNCHANGED <<serviceVars, callVars, timer, appVars>>

MigrateSpec == InitMig /\ [][NextMig]_vars

Has(events, e) == \E i \in 1..Len(events) : events[i] = e
Last(events) == events[Len(events)]
\* the step is p's call of loadDynamicEndpoints
Calls(p) == callNo'[p] # callNo[p]
\* the step is the return of p's call
Returns(p) == pc'[p] = "done" /\ trail'[p] # trail[p]
Fresh(c, t) ==
  c.lastFetched # NullTime /\ t - c.lastFetched < CACHE_TTL_MS /\ Len(c.endpoints) > 0

\* C1: at most one remote catalog fetch is in flight at any time, whatever the
\* outcomes of the remote call and of the durable-store operations.
C1_AtMostOneFetchInFlight == Cardinality(InFlight) <= 1

\* C2: a caller that found a fetch in flight issues no remote call of its own and
\* returns the same endpoint list as the caller whose fetch it waited for.
C2_WaitersShareFetchResult ==
  \A p \in Procs, q \in Procs :
    (pc[p] = "done" /\ pc[q] = "done" /\ <<q, callNo[q]>> \in joined[p])
      => /\ ret[p] = ret[q]
         /\ \A i \in 1..Len(trail[p]) : trail[p][i] # "remote"

C5_FetchSurvivesWriteFailure ==
  [][\A p \in Procs :
       (Returns(p) /\ Has(trail[p], "setFail"))
         => /\ ret'[p] = <<built[p].endpoints>>
            /\ (\A q \in Procs \ {p} : pc[q] \in {"idle", "done"})
                 => Persistable(cache') = built[p]]_vars

\* C6: when the remote fetch fails and the durable store holds a snapshot, the call
\* returns that snapshot's endpoint list.
C6_FailedFetchServesSnapshot ==
  [][\A p \in Procs :
       (pc[p] = "fetch" /\ Returns(p) /\ Last(trail'[p]) = "failed" /\ store # <<>>)
         => ret'[p] = <<store[1].endpoints>>]_vars

\* C7: no call of load propagates an exception: a call that has ended has returned
\* a sequence, whatever failed; and when the fetch fails with no durable snapshot
\* and no in-process data the sequence is empty.
C7_LoadNeverThrows ==
  /\ [](\A p \in Procs :
          /\ pc[p] # "threw"
          /\ pc[p] = "done" => Len(ret[p]) = 1 /\ DOMAIN ret[p][1] = 1..Len(ret[p][1]))
  /\ [][\A p \in Procs :
          (pc[p] = "fetch" /\ Last(trail'[p]) = "failed"
             /\ store = <<>> /\ cache.endpoints = <<>>)
            => pc'[p] = "done" /\ ret'[p] = <<<<>>>>]_vars

\* every kind of failure has been survived: a call whose write and read both failed
\* has returned, and a call whose fetch failed with nothing stored returned []
C7_Witness ==
  \E p \in Procs, q \in Procs :
    /\ pc[p] = "done" /\ Has(trail[p], "setFail") /\ Has(trail[p], "getFail")
    /\ pc[q] = "done" /\ Last(trail[q]) = "failed" /\ ret[q] = <<<<>>>>
    /\ store = <<>>

\* C8: a call returns an empty sequence only when neither the in-process cache nor
\* the durable snapshot holds endpoints.
C8_EmptyOnlyWhenNothingAvailable ==
  [][\A p \in Procs :
       (Returns(p) /\ ret'[p] = <<<<>>>>)
         => cache.endpoints = <<>> /\ store = <<>>]_vars

C10_SnapshotEqualsCacheAtRest ==
  ( /\ \A p \in Procs : pc[p] \in {"idle", "done"} /\ callNo[p] <= 1
    /\ \A p \in Procs : ~Has(trail[p], "setFail") /\ ~Has(trail[p], "getFail")
    /\ \E p \in Procs : Has(trail[p], "entries") )
    => store = <<Persistable(cache)>>

\* C10 amended: every fetch that returns entries hands the durable store exactly
\* the endpoints, modelMetadata and lastFetched it installed in the cache, and when
\* that write succeeds the snapshot holds exactly those values; the snapshot then
\* equals the cache unless another call has changed the cache since.
C10_SnapshotIsWhatWasInstalled ==
  [][\A p \in Procs :
       /\ (pc[p] = "fetch" /\ pc'[p] = "set") => built'[p] = Persistable(cache')
       /\ (pc[p] = "set" /\ Last(trail'[p]) = "setOk")
            => /\ store' = <<built[p]>>
               /\ Persistable(cache) = built[p] => store' = <<Persistable(cache')>>]_vars

\* a fetch with entries has been persisted and the snapshot equals the cache
C10_Witness ==
  \E p \in Procs :
    /\ pc[p] = "done" /\ Last(trail[p]) = "setOk"
    /\ store = <<Persistable(cache)>>
    /\ ret[p] = <<cache.endpoints>> /\ Len(cache.endpoints) > 0

\* C11 as stated: lastFetched of the cache changes only when a fetch that returned
\* at least one entry installs its result, and then to that call's timestamp; no
\* failure or fallback path modifies it.
C11_LastFetchedOnlyByFetch ==
  [][cache'.lastFetched # cache.lastFetched
       => \E p \in Procs :
            /\ pc[p] = "fetch" /\ Last(trail'[p]) = "entries"
            /\ cache'.lastFetched = now[p]]_vars

\* C11 amended: lastFetched changes only in two ways: a fetch that returned at least
\* one entry sets it to that call's timestamp, and the error path that finds a
\* durable snapshot sets it to the snapshot's lastFetched; a fetch that fails or
\* returns zero entries, a missing snapshot, a rejected read and a released waiter
\* leave it unchanged.
C11_LastFetchedByFetchOrAdoption ==
  [][/\ cache'.lastFetched # cache.lastFetched
          => \E p \in Procs :
               \/ pc[p] = "fetch" /\ Last(trail'[p]) = "entries"
               \/ pc[p] = "get" /\ Last(trail'[p]) = "getHit"
     /\ \A p \in Procs :
          /\ (pc[p] = "fetch" /\ Last(trail'[p]) = "entries")
               => cache'.lastFetched = now[p]
          /\ (pc[p] = "get" /\ Last(trail'[p]) = "getHit")
               => cache'.lastFetched = store[1].lastFetched
          /\ (Returns(p) /\ Last(trail'[p]) \in {"zero", "failed", "getMiss", "getFail", "released"})
               => cache'.lastFetched = cache.lastFetched]_vars

\* a call whose fetch delivered a malformed entry adopted the earlier process's
\* snapshot: the cache now carries a lastFetched older than the call
C11_Witness ==
  \E p \in Procs :
    /\ pc[p] = "done" /\ Has(trail[p], "malformed") /\ Last(trail[p]) = "getHit"
    /\ cache.lastFetched = PriorTime
    /\ ret[p] = <<cache.endpoints>> /\ Len(cache.endpoints) > 0

\* the provider an endpoint was generated for: its name without "openrouter-"
ProviderOf(endpoint) == SubSeq(endpoint.name, Len(OPENROUTER) + 2, Len(endpoint.name))
\* the position in the fetched catalog at which a provider is first met
FirstSeen(models, provider) ==
  CHOOSE k \in 1..Len(models) :
    /\ parseModelId(models[k].id).provider = provider
    /\ \A j \in 1..(k - 1) : parseModelId(models[j].id).provider # provider
Installed == result # <<>> /\ result[1].fn = "install"

\* C14: the endpoint list installed in the cache and returned after a fetch with
\* entries is in ascending alphabetical (localeCompare) order of displayName, and
\* endpoints with equal displayName keep the order in which their providers were
\* first met in the fetched catalog.
C14_EndpointsSortedStable ==
  Installed =>
    LET e == result[1].value.cache.endpoints
    IN /\ result[1].value.returned = e
       /\ \A i \in 1..Len(e), j \in 1..Len(e) :
            i < j =>
              /\ LocaleCompare(e[i].displayName, e[j].displayName) <= 0
              /\ e[i].displayName = e[j].displayName
                   => FirstSeen(arg.value, ProviderOf(e[i]))
                        < FirstSeen(arg.value, ProviderOf(e[j]))

\* "meta-llama" was met before "meta": the two endpoints named "Meta" are in that
\* order, after the endpoint of provider "a"
C14_Witness ==
  /\ Installed
  /\ arg.value = <<Entry(ID_LLAMA), Entry(ID_META), Entry(ID_AX)>>
  /\ LET e == result[1].value.cache.endpoints
     IN /\ Len(e) = 3
        /\ ProviderOf(e[1]) = <<"a">>
        /\ e[2].displayName = e[3].displayName
        /\ ProviderOf(e[2]) = <<"m","e","t","a","-","l","l","a","m","a">>
        /\ ProviderOf(e[3]) = <<"m","e","t","a">>

Generated == result # <<>> /\ result[1].fn = "generateEndpointConfig"
\* how many times x occurs in the sequence s
Count(x, s) == Cardinality({i \in 1..Len(s) : s[i] = x})

\* C15: for every endpoint configuration generated for a provider and its group,
\* models.default holds the ids of the group in ascending order, titleModel is the
\* first of them (null for an empty group), and the keys of modelMetadata are
\* exactly the ids in models.default.
C15_ConfigOfGroup ==
  Generated =>
    LET group == arg.value.models
        config == result[1].value
        d == config.models.default
    IN /\ Len(d) = Len(group)
       /\ \A i \in 1..Len(group) :
            Count(group[i].id, d) = Count(group[i].id, [k \in 1..Len(group) |-> group[k].id])
       /\ \A i \in 1..Len(d), j \in 1..Len(d) : i < j => LocaleCompare(d[i], d[j]) <= 0
       /\ config.titleModel = IF Len(d) = 0 THEN Null ELSE d[1]
       /\ DOMAIN config.modelMetadata = {d[i] : i \in 1..Len(d)}

Parsed == result # <<>> /\ result[1].fn = "parseModelId"
\* the positions of the slashes of an identifier
Slashes(id) == {i \in 1..Len(id) : id[i] = "/"}
Min(S) == CHOOSE x \in S : \A y \in S : x <= y
Max(S) == CHOOSE x \in S : \A y \in S : x >= y

\* C16: parseModelId returns a value for every string and follows three rules: one
\* slash gives the text before it as provider and the text after it as modelName;
\* two slashes with "openrouter" before the first give the text between them as
\* provider and the text after the second as modelName; every other shape gives
\* provider "unknown" and the whole id as modelName; fullId is always the id.
C16_ParseRules ==
  /\ (arg.kind = "id" /\ result = <<>>) => ENABLED CallParseModelId
  /\ Parsed =>
       LET id == arg.value
           sl == Slashes(id)
           parsed == result[1].value
       IN /\ DOMAIN parsed = {"provider", "modelName", "fullId"}
          /\ parsed.fullId = id
          /\ IF Cardinality(sl) = 1
             THEN /\ parsed.provider = SubSeq(id, 1, Min(sl) - 1)
                  /\ parsed.modelName = SubSeq(id, Min(sl) + 1, Len(id))
             ELSE IF Cardinality(sl) = 2 /\ SubSeq(id, 1, Min(sl) - 1) = OPENROUTER
             THEN /\ parsed.provider = SubSeq(id, Min(sl) + 1, Max(sl) - 1)
                  /\ parsed.modelName = SubSeq(id, Max(sl) + 1, Len(id))
             ELSE /\ parsed.provider = UNKNOWN
                  /\ parsed.modelName = id

\* "openrouter/a/unknown" has been parsed by the namespace rule
C16_Witness ==
  /\ Parsed
  /\ arg.value = OPENROUTER \o <<"/", "a", "/">> \o UNKNOWN
  /\ result[1].value.provider = <<"a">>
  /\ result[1].value.modelName = UNKNOWN

ShapeTested == result # <<>> /\ result[1].fn = "isOpenRouterModelId"
\* id is a non-empty text without slash, a slash, and another such text
OneInnerSlash(id) ==
  \E k \in 2..(Len(id) - 1) : id[k] = "/" /\ \A j \in 1..Len(id) : j # k => id[j] # "/"

StartsWith(id, prefix) ==
  Len(id) >= Len(prefix) /\ SubSeq(id, 1, Len(prefix)) = prefix

\* C17 as stated: isOpenRouterModelId(id) is true exactly when id has exactly one
\* slash and neither starts nor ends with it, and then parseModelId(id) returns a
\* provider other than "unknown", provider and modelName being the text before and
\* after the slash.
C17_ShapedNeverUnknown ==
  ShapeTested =>
    LET id == arg.value
        parsed == parseModelId(id)
    IN /\ result[1].value = OneInnerSlash(id)
       /\ result[1].value =>
            /\ parsed.provider # UNKNOWN
            /\ parsed.provider = SubSeq(id, 1, Min(Slashes(id)) - 1)
            /\ parsed.modelName = SubSeq(id, Min(Slashes(id)) + 1, Len(id))

\* C17 amended: isOpenRouterModelId(id) is true exactly when id has exactly one
\* slash and neither starts nor ends with it, and then parseModelId(id) follows its
\* two-segment rule: provider and modelName are the non-empty texts before and
\* after the slash, so the provider is "unknown" only when the id itself begins
\* with "unknown/"; the namespaced three-segment form, which parseModelId also
\* resolves to a provider, is rejected.
C17_ShapedParsesAsTwoSegments ==
  ShapeTested =>
    LET id == arg.value
        parsed == parseModelId(id)
    IN /\ result[1].value = OneInnerSlash(id)
       /\ result[1].value =>
            /\ parsed.provider = SubSeq(id, 1, Min(Slashes(id)) - 1)
            /\ parsed.modelName = SubSeq(id, Min(Slashes(id)) + 1, Len(id))
            /\ parsed.provider # <<>> /\ parsed.modelName # <<>>
            /\ parsed.provider = UNKNOWN => StartsWith(id, UNKNOWN \o <<"/">>)
       /\ (Cardinality(Slashes(id)) = 2 /\ StartsWith(id, OPENROUTER \o <<"/">>))
            => ~result[1].value

\* "unknown/a" is provider-shaped, and its provider is "unknown"
C17_Witness ==
  /\ ShapeTested
  /\ arg.value = UNKNOWN \o <<"/", "a">>
  /\ result[1].value = TRUE
  /\ parseModelId(arg.value).provider = UNKNOWN

RECURSIVE TotalIds(_)
\* the number of ids over all endpoints of a list
TotalIds(endpoints) ==
  IF endpoints = <<>> THEN 0
  ELSE Len(Head(endpoints).models.default) + TotalIds(Tail(endpoints))

\* C18: after a fetch with entries, every fetched id is listed by exactly one
\* endpoint, whose name is "openrouter-" followed by the provider parseModelId
\* gives for the id ("unknown" included); no two endpoints have the same name; and
\* the endpoints list as many ids in total as entries were fetched.
C18_IdsPartitionedByProvider ==
  Installed =>
    LET models == arg.value
        e == result[1].value.cache.endpoints
        Lists(i, id) == \E j \in 1..Len(e[i].models.default) : e[i].models.default[j] = id
    IN /\ \A k \in 1..Len(models) :
            /\ Cardinality({i \in 1..Len(e) : Lists(i, models[k].id)}) = 1
            /\ \A i \in 1..Len(e) :
                 Lists(i, models[k].id)
                   => e[i].name = OPENROUTER \o <<"-">> \o parseModelId(models[k].id).provider
       /\ \A i \in 1..Len(e), j \in 1..Len(e) : i # j => e[i].name # e[j].name
       /\ TotalIds(e) = Len(models)

\* an id without provider, a namespaced id and a two-segment id of the same
\* provider: two endpoints, "openrouter-a" with two ids and "openrouter-unknown"
C18_Witness ==
  /\ Installed
  /\ arg.value = <<Entry(ID_BARE), Entry(ID_OR_AW), Entry(ID_AX)>>
  /\ LET e == result[1].value.cache.endpoints
     IN /\ Len(e) = 2
        /\ e[1].name = OPENROUTER \o <<"-", "a">>
        /\ e[1].models.default = <<ID_AX, ID_OR_AW>>
        /\ e[2].name = OPENROUTER \o <<"-">> \o UNKNOWN
        /\ e[2].models.default = <<ID_BARE>>

\* C13: with every remote call and every durable-store operation completing, every
\* call of load eventually returns, a call that found a fetch in flight and began
\* to wait included: the calls of a run being finitely many, from some point on no
\* call is pending.
C13_EveryLoadReturns == <>[](\A p \in Procs : pc[p] \in {"idle", "done"})

\* a call that waited for another call's fetch has been released and has returned
C13_Witness ==
  \E p \in Procs :
    /\ pc[p] = "done" /\ Last(trail[p]) = "released"
    /\ joined[p] # {}

\* the step is a firing of the scheduler's timer
TimerFires == timer # <<>> /\ timer' # timer
\* a caller slot is free and the run may still make a call
CanCall == calls < MaxCalls /\ \E p \in Procs : pc[p] \in {"idle", "done"}

\* C12: once startRefreshScheduler has been called the timer stays registered with
\* its interval whatever happens; every firing re-arms it and invokes refresh(),
\* also while an earlier refresh is still running; and a due timer can fire
\* whatever the earlier refreshes did to the cache, the store and the flag.
C12_TimerKeepsFiring ==
  /\ []((timer # <<>> /\ clock >= timer[1].due /\ CanCall)
          => ENABLED (\E p \in Procs : SchedulerTick(p) /\ UNCHANGED <<callVars, appVars, migVars>>))
  /\ [][timer # <<>> => (timer' # <<>> /\ timer'[1].intervalMs = timer[1].intervalMs)]_vars
  /\ [][TimerFires
          => /\ timer'[1].due = clock + timer[1].intervalMs
             /\ \E p \in Procs :
                  /\ Calls(p) /\ trail'[p][1] = "refresh"
                  /\ pc'[p] = IF cache.isLoading THEN "wait" ELSE "fetch"]_vars

\* the timer fired while the refresh of its previous firing was still running: the
\* second refresh waits for the first, and the timer is armed for the next firing
C12_Witness ==
  \E p \in Procs, q \in Procs :
    /\ timer # <<>> /\ timer[1].due > clock
    /\ trail[p] = <<"refresh", "remote">> /\ pc[p] = "fetch"
    /\ trail[q] = <<"refresh", "wait">> /\ pc[q] = "wait"
    /\ <<p, callNo[p]>> \in joined[q]

\* the config loadBaseConfig starts from: what loadCustomConfig resolved to, or {}
LoadedConfig == IF customFile = <<>> THEN <<EmptyConfig>> ELSE customFile

\* C19: the loader changes endpoints.custom only by appending. With the flag on and
\* getDynamicEndpoints() returning a non-empty list, endpoints.custom becomes the
\* static endpoints in their order followed by the dynamic ones in returned order;
\* with the flag off getDynamicEndpoints() is not called and the config is the
\* static one; an empty or failing getDynamicEndpoints() leaves the static config
\* unchanged.
C19_CustomOnlyAppended ==
  [][\A p \in Procs :
       /\ (app[p].pc = "custom" /\ app'[p].pc # "custom")
            => /\ app'[p].config = LoadedConfig
               /\ Calls(p) <=> enabled
               /\ enabled => (app'[p].pc = "dynamic" /\ trail'[p][1] = "get")
               /\ ~enabled => app'[p].pc = "save"
       /\ (app[p].pc = "dynamic" /\ app'[p].pc # "dynamic")
            => /\ app'[p].pc = "save"
               /\ IF pc[p] = "done" /\ Len(ret[p][1]) > 0
                  THEN /\ app'[p].config[1].endpoints # <<>>
                       /\ app'[p].config[1].endpoints[1].custom
                            = <<CustomOf(LoadedConfig[1]) \o ret[p][1]>>
                  ELSE app'[p].config = LoadedConfig
       /\ (app[p].pc = "save" /\ app'[p].pc = "returned")
            => /\ app'[p].ret = <<AppService(app[p].config[1])>>
               /\ ~enabled => app[p].config = LoadedConfig]_vars

\* the two static endpoints are followed by the endpoints the service returned
C19_Witness ==
  \E p \in Procs :
    /\ enabled
    /\ app[p].pc = "save"
    /\ pc[p] = "done" /\ Len(ret[p][1]) > 0
    /\ CustomOf(app[p].config[1]) = <<STATIC_1, STATIC_2>> \o ret[p][1]

\* C20: getAppConfig called with refresh = true does not return the base config an
\* earlier call stored: it runs loadBaseConfig again.
C20_RefreshRebuilds ==
  [][\A p \in Procs :
       (app[p].pc = "base" /\ app[p].refresh /\ appStore # <<>>
          /\ app'[p] # app[p] /\ app'[p].pc # "threw")
         => app'[p].pc = "custom"]_vars

\* no call of loadDynamicEndpoints is executing
AtRest == \A p \in Procs : pc[p] \in {"idle", "done"}

\* C21: isLoading is true only while a fetch is in flight: whenever the flag is set,
\* some call has set it and its remote call has not returned; every step in which a
\* remote call returns leaves the flag cleared; and the flag is false whenever no
\* call is executing, whatever succeeded or failed.
C21_LoadingOnlyWhileFetching ==
  /\ [](cache.isLoading => InFlight # {})
  /\ [](AtRest => ~cache.isLoading)
  /\ [][\A p \in Procs : (pc[p] = "fetch" /\ pc'[p] # "fetch") => ~cache'.isLoading]_vars
  /\ [][(~cache.isLoading /\ cache'.isLoading)
          => \E p \in Procs : Calls(p) /\ pc'[p] = "fetch"]_vars

\* every path has been taken and the flag is clear: a call whose write and read both
\* failed and a call whose fetch brought zero entries have returned
C21_Witness ==
  \E p \in Procs, q \in Procs :
    /\ AtRest /\ ~cache.isLoading
    /\ pc[p] = "done" /\ Has(trail[p], "setFail") /\ Last(trail[p]) = "getFail"
    /\ pc[q] = "done" /\ Last(trail[q]) = "zero"

RECURSIVE MetadataOfEndpoints(_)
\* the merge of the modelMetadata maps of the endpoints of a list
MetadataOfEndpoints(endpoints) ==
  IF endpoints = <<>> THEN <<>>
  ELSE endpoints[Len(endpoints)].modelMetadata
         @@ MetadataOfEndpoints(SubSeq(endpoints, 1, Len(endpoints) - 1))

\* C22: in every state a reader can observe, endpoints and modelMetadata of the
\* cache come from the same fetch or the same snapshot: modelMetadata is exactly
\* the merge of the modelMetadata maps of the cache's endpoints; a fetch installs
\* both in one step, and the fallback path adopts both from the one snapshot in
\* one step.
C22_EndpointsAndMetadataAgree ==
  /\ [](cache.modelMetadata = MetadataOfEndpoints(cache.endpoints))
  /\ [][\A p \in Procs :
          /\ (pc[p] = "fetch" /\ pc'[p] = "set")
               => /\ cache'.endpoints = built'[p].endpoints
                  /\ cache'.modelMetadata = built'[p].modelMetadata
          /\ (pc[p] = "get" /\ Last(trail'[p]) = "getHit")
               => /\ cache'.endpoints = store[1].endpoints
                  /\ cache'.modelMetadata = store[1].modelMetadata]_vars

\* a call installed its own fetch, its write failed, and it adopted the snapshot of
\* the earlier process: the cache went from one catalog to another
C22_Witness ==
  \E p \in Procs :
    /\ pc[p] = "done" /\ Has(trail[p], "entries") /\ Has(trail[p], "setFail")
    /\ Last(trail[p]) = "getHit"
    /\ cache.endpoints = store[1].endpoints
    /\ DOMAIN cache.modelMetadata = {ID_AX}

\* C23: the durable snapshot is read only when the in-process cache is empty: no
\* call of load is reading the durable store while the cache holds endpoints.
C23_SnapshotReadOnlyWhenCacheEmpty ==
  \A p \in Procs : pc[p] = "get" => cache.endpoints = <<>>

\* getProviderModels(): the Map held by the cache
getProviderModels == cache.providerModels

\* the ids of a group, in the group's order
IdsOf(group) == [i \in 1..Len(group) |-> group[i].id]

\* C24: in every reachable state the Map returned by getProviderModels() describes
\* the cached endpoints: its keys are exactly the providers of the cached endpoints
\* and the ids of each group are the models.default of that provider's endpoint,
\* also after the cache adopted a durable snapshot.
C24_ProviderModelsMatchEndpoints ==
  LET pm == getProviderModels
      e == cache.endpoints
  IN /\ {pm[i].key : i \in 1..Len(pm)} = {ProviderOf(e[j]) : j \in 1..Len(e)}
     /\ \A i \in 1..Len(pm), j \in 1..Len(e) :
          pm[i].key = ProviderOf(e[j]) => IdsOf(pm[i].value) = e[j].models.default

RoundTripped == result # <<>> /\ result[1].fn = "displayRoundTrip"

\* C25: for every model id listed under the endpoint "openrouter-" + provider, the
\* provider being the one parseModelId gives for the id (the namespaced
\* three-segment form and the ids grouped under "unknown" included),
\* getFullModelId(transformModelForDisplay(id, endpointName), endpointName) is id.
C25_DisplayRoundTrip ==
  RoundTripped => result[1].value.fullId = arg.value

\* C26: migrateLiteLLMKeys creates keys only for users who do not have one. A user
\* with a 'litellm' key record when a run starts gets no key generated and no record
\* written in that run; a run that follows a run after which every user had a
\* stored key reports migrated = 0 and failed = 0; and every run that completes its
\* loop reports migrated + skipped + failed = the number of users (a run that is
\* skipped for want of the master key or the models, or whose queries fail, reports
\* three zeros).
C26_MigrationIdempotent ==
  /\ [][\A u \in UserIds :
          (issued'[u] # issued[u] \/ u \in keyRecords' \ keyRecords) => u \notin mig.atStart]_vars
  /\ [](\A k \in 2..Len(reports) :
          (\A i \in 1..Len(users) : users[i]._id \in reports[k - 1].keysAfter)
            => reports[k].result.migrated = 0 /\ reports[k].result.failed = 0)
  /\ [](\A k \in 1..Len(reports) :
          LET r == reports[k].result
          IN IF reports[k].path = "complete"
             THEN r.migrated + r.skipped + r.failed = Len(users)
             ELSE r = Zeros)

\* a first run gave a key to a user who had none, after it every one of at least
\* two users had a stored key, and the second run skipped them all
C26_Witness ==
  /\ Len(reports) = 2 /\ Len(users) >= 2
  /\ reports[1].path = "complete" /\ reports[1].result.migrated >= 1
  /\ reports[1].keysBefore # {}
  /\ \A i \in 1..Len(users) : users[i]._id \in reports[1].keysAfter
  /\ reports[2].path = "complete"
  /\ reports[2].result = [migrated |-> 0, skipped |-> Len(users), failed |-> 0]

====
